---- MODULE Spec2Model ----
(***************************************************************************)
(* Unit selection prototype (src/src/main.rs): a Bevy application whose    *)
(* Update schedule runs five systems per frame in an unspecified order.    *)
(*                                                                         *)
(* Vec2 components are fixed-point integers counting quarter pixels, so    *)
(* that the divisions by 2. of the source (half the window size, the       *)
(* midpoint of two world positions) are exact.  Option<T> is a sequence    *)
(* of length at most one: None is <<>>, Some(x) is <<x>>.                  *)
(***************************************************************************)
EXTENDS Integers, Sequences, FiniteSets, TLC

VARIABLES
    selection_box,      \* Res<SelectionBox>: Option<(Vec2, Vec2)>
    buttons,            \* Res<ButtonInput<MouseButton>> of the frame
    cursor,             \* Window::cursor_position() of the frame, in quarter pixels
    finished_events,    \* Events<FinishedSelectingEvent>: buffers a (older), b (newer)
    finished_unread,    \* select_entities' EventReader: events it has not read yet
    deselect_events,    \* Events<DeselectEvent>: number of events in buffers a and b
    deselect_unread,    \* deselect's EventReader: events it has not read yet
    components,         \* the tag components of every entity
    translation,        \* Transform.translation.xy of every entity
    display_scale,      \* Transform.scale.xy of the SelectionDisplay entity
    visibility,         \* Visibility of the SelectionDisplay entity
    gizmos,             \* centres of the ellipses display_border drew this frame
    cmd_select,         \* select_entities' Commands queue
    cmd_deselect,       \* deselect's Commands queue
    ran,                \* systems of the Update schedule that have run this frame
    phase,              \* "update": systems running; "applied": commands applied
    dragging,           \* history: press position of the drag in progress
    finished_read,      \* history: the event select_entities read this frame
    deselect_read,      \* history: deselect read an event this frame
    inserted,           \* history: select_entities tagged an entity (this, previous frame)
    cancelled,          \* history: a right press was made while the left button is held
    call                \* an isolated call of within_selection: arguments and result

vars == <<selection_box, buttons, cursor, finished_events, finished_unread,
          deselect_events, deselect_unread, components, translation,
          display_scale, visibility, gizmos, cmd_select, cmd_deselect, ran,
          phase, dragging, finished_read, deselect_read, inserted, cancelled,
          call>>

(***************************************************************************)
(* Bounds of the model.                                                    *)
(***************************************************************************)
\* logical size of the primary window, in pixels
WinW == 2
WinH == 2

\* largest coordinate, in quarter pixels, of the arguments of an isolated call
MaxCoord == 1

(***************************************************************************)
(* Values.                                                                 *)
(***************************************************************************)
None == <<>>
Some(x) == <<x>>

Vec2(x, y) == [x |-> x, y |-> y]

\* Vec2::ZERO, the translation of Transform::default()
ZERO == Vec2(0, 0)

\* Vec3::ONE (its xy), the scale of Transform::default()
ONE == Vec2(4, 4)

\* Window::size(), in quarter pixels
WindowSize == Vec2(4 * WinW, 4 * WinH)

\* cursor positions the window reports: its top left corner, its centre and
\* its bottom right corner
CursorPositions == {Vec2(0, 0), Vec2(2 * WinW, 2 * WinH), Vec2(4 * WinW, 4 * WinH)}

\* the entities setup spawns, with the tag components it gives them
Entities == {"camera", "circle", "selection_display", "ui"}

SetupComponents ==
    [e \in Entities |->
        CASE e = "circle" -> {"Selectable"}
          [] e = "selection_display" -> {"SelectionDisplay"}
          [] OTHER -> {}]

\* Query<_, With<C>>
With(component) == {e \in Entities : component \in components[e]}

Systems == {"handle_mouse_input", "display_selection_box", "display_border",
            "deselect", "select_entities"}

\* the conversion without the negation of the y axis
WorldPositionNotFlipped(window_position) ==
    Vec2(window_position.x - WindowSize.x \div 2,
         window_position.y - WindowSize.y \div 2)

\* window_position - size / 2., then the y axis negated
WorldPosition(window_position) ==
    LET world_position == Vec2(window_position.x - WindowSize.x \div 2,
                               window_position.y - WindowSize.y \div 2)
    IN  Vec2(world_position.x, -world_position.y)

\* within_selection with <= in place of <
WithinSelectionInclusive(box, pos) ==
    IF box = None
    THEN FALSE
    ELSE LET to == box[1][1]
             from == box[1][2]
             within_x == to.x <= pos.x /\ pos.x <= from.x
             within_y == to.y >= pos.y /\ pos.y >= from.y
         IN  within_x /\ within_y

\* within_selection with the corners ordered before the comparison
WithinSelectionNormalised(box, pos) ==
    IF box = None
    THEN FALSE
    ELSE LET to == box[1][1]
             from == box[1][2]
             lo(a, b) == IF a < b THEN a ELSE b
             hi(a, b) == IF a < b THEN b ELSE a
             within_x == lo(to.x, from.x) < pos.x /\ pos.x < hi(to.x, from.x)
             within_y == hi(to.y, from.y) > pos.y /\ pos.y > lo(to.y, from.y)
         IN  within_x /\ within_y

\* SelectionBox::within_selection
WithinSelection(box, pos) ==
    IF box = None
    THEN FALSE
    ELSE LET to == box[1][1]
             from == box[1][2]
             within_x == to.x < pos.x /\ pos.x < from.x
             within_y == to.y > pos.y /\ pos.y > from.y
         IN  within_x /\ within_y

(***************************************************************************)
(* ButtonInput<MouseButton>: the states a button can show in one frame,    *)
(* given whether it was pressed at the end of the previous frame.  A       *)
(* frame's press and release events toggle `pressed`; every toggle sets    *)
(* just_pressed or just_released, and both are cleared between frames.     *)
(***************************************************************************)
ButtonState(pressed, just_pressed, just_released) ==
    [pressed |-> pressed, just_pressed |-> just_pressed, just_released |-> just_released]

ButtonFrames(was_pressed) ==
    IF was_pressed
    THEN {ButtonState(TRUE, FALSE, FALSE),   \* still held
          ButtonState(FALSE, FALSE, TRUE),   \* released
          ButtonState(TRUE, TRUE, TRUE),     \* released and pressed again
          ButtonState(FALSE, TRUE, TRUE)}    \* released, pressed and released
    ELSE {ButtonState(FALSE, FALSE, FALSE),  \* still up
          ButtonState(TRUE, TRUE, FALSE),    \* pressed
          ButtonState(FALSE, TRUE, TRUE),    \* pressed and released
          ButtonState(TRUE, TRUE, TRUE)}     \* pressed, released and pressed again

\* just_pressed(MouseButton::Right), the one thing read of the right button:
\* whatever its earlier state, a frame can show it just pressed or not
RightFrames == {f.just_pressed : f \in ButtonFrames(TRUE) \cup ButtonFrames(FALSE)}

(***************************************************************************)
(* Events<E>: two buffers; Events::update drops the older buffer, so an    *)
(* event lives through the frame that sent it and the next one.  An        *)
(* EventReader is the number of live events it has not read yet.           *)
(***************************************************************************)
Min(a, b) == IF a < b THEN a ELSE b

\* the event `.read().next()` returns: the oldest unread one, if any
ReadNext(live, unread) ==
    IF unread = 0 THEN None ELSE Some(live[Len(live) - unread + 1])

NoCall == [box |-> None, pos |-> ZERO, result |-> None]

NotCancelled == [stage |-> "no", in_window |-> FALSE]

(***************************************************************************)
(* The state after Startup: setup has run and its commands are applied.    *)
(***************************************************************************)
Init ==
    /\ selection_box = None
    /\ buttons = [left |-> ButtonState(FALSE, FALSE, FALSE), right_just_pressed |-> FALSE]
    /\ cursor = None
    /\ finished_events = [a |-> <<>>, b |-> <<>>]
    /\ finished_unread = 0
    /\ deselect_events = [a |-> 0, b |-> 0]
    /\ deselect_unread = 0
    /\ components = SetupComponents
    /\ translation = [e \in Entities |-> ZERO]
    /\ display_scale = ONE
    /\ visibility = "Hidden"
    /\ gizmos = {}
    /\ cmd_select = {}
    /\ cmd_deselect = {}
    /\ ran = {}
    /\ phase = "applied"
    /\ dragging = None
    /\ finished_read = None
    /\ deselect_read = FALSE
    /\ inserted = [now |-> FALSE, prev |-> FALSE]
    /\ cancelled = NotCancelled
    /\ call = NoCall

\* the drag in progress once the frame's input is known: the press position
\* of a left press made with the cursor in the window, for as long as the
\* button stays held and the right button is not pressed
Dragging(left, right_just_pressed, c) ==
    IF ~left.pressed \/ right_just_pressed
    THEN None
    ELSE IF left.just_pressed
         THEN (IF c = None THEN None ELSE Some(WorldPosition(c[1])))
         ELSE dragging

\* the cancelled drag once the frame's input is known: "held" from a right
\* press made while the left button is held, for as long as the left button
\* is merely held; "released" in the frame that releases it; in_window tells
\* whether the cursor was in the window at the right press
Cancelled(left, right_just_pressed, c) ==
    LET held == left = ButtonState(TRUE, FALSE, FALSE)
        released == left = ButtonState(FALSE, FALSE, TRUE)
        before == cancelled.stage = "held"
    IN  IF left.pressed /\ right_just_pressed
        THEN [stage |-> "held",
              in_window |-> c # None \/ (before /\ held /\ cancelled.in_window)]
        ELSE IF before /\ held
             THEN cancelled
             ELSE IF before /\ released
                  THEN [cancelled EXCEPT !.stage = "released"]
                  ELSE NotCancelled

(***************************************************************************)
(* The engine between two Update schedules: Events::update for both event  *)
(* types, the frame's window and mouse button input.                       *)
(***************************************************************************)
BeginFrame ==
    /\ phase = "applied"
    /\ phase' = "update"
    /\ ran' = {}
    /\ finished_events' = [a |-> finished_events.b, b |-> <<>>]
    /\ finished_unread' = Min(finished_unread, Len(finished_events.b))
    /\ deselect_events' = [a |-> deselect_events.b, b |-> 0]
    /\ deselect_unread' = Min(deselect_unread, deselect_events.b)
    /\ \E left \in ButtonFrames(buttons.left.pressed),
          right \in RightFrames,
          c \in {None} \cup {Some(p) : p \in CursorPositions} :
            /\ buttons' = [left |-> left, right_just_pressed |-> right]
            /\ cursor' = c
            /\ dragging' = Dragging(left, right, c)
            /\ cancelled' = Cancelled(left, right, c)
    /\ gizmos' = {}
    /\ finished_read' = None
    /\ deselect_read' = FALSE
    /\ inserted' = [now |-> FALSE, prev |-> inserted.now]
    /\ UNCHANGED <<selection_box, components, translation, display_scale,
                   visibility, cmd_select, cmd_deselect, call>>

Run(system) ==
    /\ phase = "update"
    /\ system \notin ran
    /\ ran' = ran \cup {system}
    /\ UNCHANGED phase

\* cursor_position().unwrap_or_default() in place of the early return
CursorPositionOrDefault == IF cursor = None THEN Some(ZERO) ELSE cursor

\* windows_query.single().cursor_position()
CursorPosition == cursor

\* the selection box after the just_pressed(Left) block
BoxAfterPress(box, world_position) ==
    IF buttons.left.just_pressed THEN Some(<<world_position, world_position>>) ELSE box

\* the selection box after the pressed(Left) block
BoxAfterHold(box, world_position) ==
    IF buttons.left.pressed /\ box # None
    THEN Some(<<box[1][1], world_position>>)
    ELSE box

\* the just_released(Left) block without its reset
BoxAfterReleaseKept(box) == box

\* the selection box after the just_released(Left) block
BoxAfterRelease(box) ==
    IF buttons.left.just_released THEN None ELSE box

\* the just_pressed(Right) block without its reset
BoxAfterRightPressKept(box) == box

\* the selection box after the just_pressed(Right) block
BoxAfterRightPress(box) ==
    IF buttons.right_just_pressed THEN None ELSE box

handle_mouse_input ==
    /\ Run("handle_mouse_input")
    /\ LET window_position == CursorPosition
       IN  IF window_position = None
           THEN UNCHANGED <<selection_box, finished_events, finished_unread,
                            deselect_events, deselect_unread>>
           ELSE LET world_position == WorldPosition(window_position[1])
                    pressed == BoxAfterPress(selection_box, world_position)
                    held == BoxAfterHold(pressed, world_position)
                IN  /\ selection_box' = BoxAfterRightPress(BoxAfterRelease(held))
                    /\ IF buttons.left.just_released
                       THEN /\ finished_events' =
                                  [finished_events EXCEPT !.b = Append(@, held)]
                            /\ finished_unread' = finished_unread + 1
                       ELSE UNCHANGED <<finished_events, finished_unread>>
                    /\ IF buttons.right_just_pressed
                       THEN /\ deselect_events' = [deselect_events EXCEPT !.b = @ + 1]
                            /\ deselect_unread' = deselect_unread + 1
                       ELSE UNCHANGED <<deselect_events, deselect_unread>>
    /\ UNCHANGED <<buttons, cursor, components, translation, display_scale,
                   visibility, gizmos, cmd_select, cmd_deselect, dragging,
                   finished_read, deselect_read, inserted, cancelled, call>>

\* a queued command on an entity: insert or remove a bundle of components
Command(op, entity, bundle) == [op |-> op, entity |-> entity, bundle |-> bundle]

\* the bundle select_entities inserts
InsertedBundle == {"Selected", "Border"}

\* deselect removing Border alone
RemovedBundleBorderOnly == {"Border"}

\* deselect removing Selected alone
RemovedBundleSelectedOnly == {"Selected"}

\* the bundle deselect removes
RemovedBundle == {"Selected", "Border"}

\* select_entities with a query that lacks the With<Selectable> filter
SelectCommandsUnfiltered(event) ==
    {Command("insert", entity, InsertedBundle) :
        entity \in {e \in Entities : WithinSelection(event, translation[e])}}

\* select_entities untagging the entities outside the box instead of skipping them
SelectCommandsReplacing(event) ==
    {Command(IF WithinSelection(event, translation[entity]) THEN "insert" ELSE "remove",
             entity, InsertedBundle) : entity \in With("Selectable")}

\* the commands select_entities queues for an event: the loop over entities_query
SelectCommands(event) ==
    {Command("insert", entity, InsertedBundle) :
        entity \in {e \in With("Selectable") : WithinSelection(event, translation[e])}}

\* the commands deselect queues: the loop over entities_query
DeselectCommands ==
    {Command("remove", entity, RemovedBundle) : entity \in With("Selectable")}

select_entities ==
    /\ Run("select_entities")
    /\ LET finished_selection_box ==
               ReadNext(finished_events.a \o finished_events.b, finished_unread)
       IN  IF finished_selection_box = None
           THEN UNCHANGED <<finished_unread, cmd_select, finished_read>>
           ELSE /\ finished_unread' = finished_unread - 1
                /\ finished_read' = finished_selection_box
                /\ cmd_select' = SelectCommands(finished_selection_box[1])
    /\ UNCHANGED <<selection_box, buttons, cursor, finished_events, deselect_events,
                   deselect_unread, components, translation, display_scale,
                   visibility, gizmos, cmd_deselect, dragging, deselect_read,
                   inserted, cancelled, call>>

deselect ==
    /\ Run("deselect")
    /\ IF deselect_unread = 0
       THEN UNCHANGED <<deselect_unread, cmd_deselect, deselect_read>>
       ELSE /\ deselect_unread' = deselect_unread - 1
            /\ deselect_read' = TRUE
            /\ cmd_deselect' = DeselectCommands
    /\ UNCHANGED <<selection_box, buttons, cursor, finished_events, finished_unread,
                   deselect_events, components, translation, display_scale,
                   visibility, gizmos, cmd_select, dragging, finished_read,
                   inserted, cancelled, call>>

\* (from + to) / 2.
DisplayCenter(from, to) == Vec2((from.x + to.x) \div 2, (from.y + to.y) \div 2)

\* the scale taken the other way round, from - to
DisplayScaleReversed(from, to) == Vec2(from.x - to.x, from.y - to.y)

\* to - from
DisplayScale(from, to) == Vec2(to.x - from.x, to.y - from.y)

display_selection_box ==
    /\ Run("display_selection_box")
    /\ IF With("SelectionDisplay") = {}
       THEN UNCHANGED <<visibility, translation, display_scale>>
       ELSE /\ visibility' = IF selection_box # None THEN "Visible" ELSE "Hidden"
            /\ IF selection_box = None
               THEN UNCHANGED <<translation, display_scale>>
               ELSE LET from == selection_box[1][1]
                        to == selection_box[1][2]
                        center == DisplayCenter(from, to)
                        scale == DisplayScale(from, to)
                    IN  /\ display_scale' = scale
                        /\ translation' =
                             [e \in Entities |->
                                 IF e \in With("SelectionDisplay")
                                 THEN center
                                 ELSE translation[e]]
    /\ UNCHANGED <<selection_box, buttons, cursor, finished_events, finished_unread,
                   deselect_events, deselect_unread, components, gizmos,
                   cmd_select, cmd_deselect, dragging, finished_read,
                   deselect_read, inserted, cancelled, call>>

display_border ==
    /\ Run("display_border")
    /\ gizmos' = {translation[e] : e \in With("Border")}
    /\ UNCHANGED <<selection_box, buttons, cursor, finished_events, finished_unread,
                   deselect_events, deselect_unread, components, translation,
                   display_scale, visibility, cmd_select, cmd_deselect, dragging,
                   finished_read, deselect_read, inserted, cancelled, call>>

\* a system's command queue applied to the entities' components
Apply(comps, queue) ==
    [e \in Entities |->
        LET inserts == UNION {c.bundle : c \in {q \in queue : q.entity = e /\ q.op = "insert"}}
            removes == UNION {c.bundle : c \in {q \in queue : q.entity = e /\ q.op = "remove"}}
        IN  (comps[e] \ removes) \cup inserts]

(***************************************************************************)
(* The end of the Update schedule: the command queues of the systems are   *)
(* applied, one system's queue after the other's.  No ordering constraint  *)
(* relates deselect and select_entities, so either queue may come first.   *)
(* The systems themselves run in any order (Run): none of the five is      *)
(* ordered against another in main.                                        *)
(***************************************************************************)
ApplyDeferred ==
    /\ phase = "update"
    /\ ran = Systems
    /\ phase' = "applied"
    /\ \E deselect_first \in BOOLEAN :
         components' =
            IF deselect_first
            THEN Apply(Apply(components, cmd_deselect), cmd_select)
            ELSE Apply(Apply(components, cmd_select), cmd_deselect)
    /\ inserted' = [inserted EXCEPT !.now = \E c \in cmd_select : c.op = "insert"]
    /\ cmd_select' = {}
    /\ cmd_deselect' = {}
    /\ UNCHANGED <<selection_box, buttons, cursor, finished_events, finished_unread,
                   deselect_events, deselect_unread, translation, display_scale,
                   visibility, gizmos, ran, dragging, finished_read, deselect_read,
                   cancelled, call>>

Next ==
    \/ BeginFrame
    \/ handle_mouse_input
    \/ select_entities
    \/ deselect
    \/ display_selection_box
    \/ display_border
    \/ ApplyDeferred

Spec == Init /\ [][Next]_vars

(***************************************************************************)
(* within_selection on its own: every box and position of a small grid.    *)
(***************************************************************************)
Grid == {Vec2(x, y) : x \in -MaxCoord .. MaxCoord, y \in -MaxCoord .. MaxCoord}

Boxes == {None} \cup {Some(<<to, from>>) : to \in Grid, from \in Grid}

InitWithin ==
    /\ selection_box = None
    /\ buttons = [left |-> ButtonState(FALSE, FALSE, FALSE), right_just_pressed |-> FALSE]
    /\ cursor = None
    /\ finished_events = [a |-> <<>>, b |-> <<>>]
    /\ finished_unread = 0
    /\ deselect_events = [a |-> 0, b |-> 0]
    /\ deselect_unread = 0
    /\ components = SetupComponents
    /\ translation = [e \in Entities |-> ZERO]
    /\ display_scale = ONE
    /\ visibility = "Hidden"
    /\ gizmos = {}
    /\ cmd_select = {}
    /\ cmd_deselect = {}
    /\ ran = {}
    /\ phase = "applied"
    /\ dragging = None
    /\ finished_read = None
    /\ deselect_read = FALSE
    /\ inserted = [now |-> FALSE, prev |-> FALSE]
    /\ cancelled = NotCancelled
    /\ \E box \in Boxes, pos \in Grid : call = [box |-> box, pos |-> pos, result |-> None]

CallWithinSelection ==
    /\ call.result = None
    /\ call' = [call EXCEPT !.result = Some(WithinSelection(call.box, call.pos))]
    /\ UNCHANGED <<selection_box, buttons, cursor, finished_events, finished_unread,
                   deselect_events, deselect_unread, components, translation,
                   display_scale, visibility, gizmos, cmd_select, cmd_deselect, ran,
                   phase, dragging, finished_read, deselect_read, inserted, cancelled>>

SpecWithin == InitWithin /\ [][CallWithinSelection]_vars

(***************************************************************************)
(* Properties.                                                             *)
(***************************************************************************)
Tags == {"Selected", "Border"}

\* handle_mouse_input has run in the current frame
InputHandled == "handle_mouse_input" \in ran

\* the corners of a box that is Some
To(box) == box[1][1]
From(box) == box[1][2]

\* world positions over the whole window, every quarter pixel
WorldGrid == {Vec2(x, y) : x \in -2 * WinW .. 2 * WinW, y \in -2 * WinH .. 2 * WinH}

\* C3: within_selection(pos) is true exactly when the box is Some((to, from))
\* with to.x < pos.x < from.x and to.y > pos.y > from.y; for a box that is
\* None it is false for every pos.
C3_WithinSelectionExact ==
    call.result # None =>
        /\ call.box = None => call.result = Some(FALSE)
        /\ call.box # None =>
             (call.result = Some(TRUE) <=>
                /\ To(call.box).x < call.pos.x
                /\ call.pos.x < From(call.box).x
                /\ To(call.box).y > call.pos.y
                /\ call.pos.y > From(call.box).y)

\* a call on a box that is Some returned true
C3_Witness == call.box # None /\ call.result = Some(TRUE)

\* C4 as stated: after handle_mouse_input has run in a frame in which the
\* left button was just released or the right button just pressed, the
\* selection box is None.
C4_BoxClearedInAnyFrame ==
    (InputHandled /\ (buttons.left.just_released \/ buttons.right_just_pressed))
        => selection_box = None

\* C4 amended: after handle_mouse_input has run in a frame in which the window
\* has a cursor position and the left button was just released or the right
\* button just pressed, the selection box is None.
C4_BoxClearedWithCursor ==
    (/\ InputHandled
     /\ cursor # None
     /\ (buttons.left.just_released \/ buttons.right_just_pressed))
        => selection_box = None

\* a release handled with the cursor in the window: the box it reported was
\* Some, and the resource is None
C4_Witness ==
    /\ InputHandled
    /\ cursor # None
    /\ buttons.left.just_released
    /\ ~buttons.right_just_pressed
    /\ Len(finished_events.b) = 1
    /\ finished_events.b[1] # None
    /\ selection_box = None

\* C5: in every reachable state an entity has the Border tag if and only if
\* it has the Selected tag.
C5_BorderIffSelected ==
    \A e \in Entities : "Border" \in components[e] <=> "Selected" \in components[e]

\* commands applied, the circle carries both tags
C5_Witness ==
    /\ phase = "applied"
    /\ inserted.now
    /\ Tags \subseteq components["circle"]

\* C6: when the end corner of a drag is not both strictly to the right of and
\* strictly below its start corner, within_selection is false for every
\* position and the drag's event makes select_entities tag no entity.
C6_WrongWayDragEmpty ==
    (/\ finished_read # None
     /\ finished_read[1] # None
     /\ ~(/\ From(finished_read[1]).x > To(finished_read[1]).x
          /\ From(finished_read[1]).y < To(finished_read[1]).y))
        => /\ \A pos \in WorldGrid : ~WithinSelection(finished_read[1], pos)
           /\ cmd_select = {}
           /\ ~inserted.now

\* select_entities read the event of a drag from one corner of the window to
\* the opposite one, up and to the left, around the circle
C6_Witness ==
    /\ phase = "applied"
    /\ finished_read # None
    /\ finished_read[1] # None
    /\ From(finished_read[1]).x < translation["circle"].x
    /\ translation["circle"].x < To(finished_read[1]).x
    /\ From(finished_read[1]).y > translation["circle"].y
    /\ translation["circle"].y > To(finished_read[1]).y

\* C7: in a frame in which the window has no cursor position,
\* handle_mouse_input leaves the selection box unchanged and sends neither a
\* FinishedSelectingEvent nor a DeselectEvent, whatever the buttons' states.
C7_NoCursorNoEffect ==
    [][("handle_mouse_input" \notin ran /\ "handle_mouse_input" \in ran' /\ cursor = None)
          => /\ selection_box' = selection_box
             /\ finished_events' = finished_events
             /\ deselect_events' = deselect_events]_vars

\* handle_mouse_input has run without a cursor position, in a frame with a
\* left release and a right press, and a box is still there
C7_Witness ==
    /\ InputHandled
    /\ cursor = None
    /\ buttons.left.just_released
    /\ buttons.right_just_pressed
    /\ selection_box # None
    /\ finished_events.b = <<>>
    /\ deselect_events.b = 0

\* C8: during a drag, from the frame of the left press with the cursor at A
\* through every later frame in which the button is still held with the cursor
\* present and no right press has occurred, the selection box after
\* handle_mouse_input is Some((A, c)), c the frame's cursor world position.
C8_FirstCornerFixed ==
    (InputHandled /\ dragging # None /\ cursor # None)
        => selection_box = Some(<<dragging[1], WorldPosition(cursor[1])>>)

\* a later frame of a drag, the cursor away from the press position
C8_Witness ==
    /\ InputHandled
    /\ dragging # None
    /\ cursor # None
    /\ ~buttons.left.just_pressed
    /\ WorldPosition(cursor[1]) # dragging[1]

\* position pos lies strictly inside the axis-aligned rectangle spanned by a and b
Max(a, b) == IF a < b THEN b ELSE a

StrictlyInsideRectangle(a, b, pos) ==
    /\ Min(a.x, b.x) < pos.x /\ pos.x < Max(a.x, b.x)
    /\ Min(a.y, b.y) < pos.y /\ pos.y < Max(a.y, b.y)

\* C1 as stated: once the event of a drag with corners A and B has been
\* processed by select_entities and the frame's commands are applied (no
\* DeselectEvent being processed in that frame), every Selectable entity whose
\* position lies strictly inside the rectangle spanned by A and B has the
\* Selected and Border tags.
C1_DragSelectsRectangle ==
    (/\ phase = "applied"
     /\ finished_read # None
     /\ finished_read[1] # None
     /\ ~deselect_read)
        => \A e \in With("Selectable") :
              StrictlyInsideRectangle(To(finished_read[1]), From(finished_read[1]),
                                      translation[e])
                  => Tags \subseteq components[e]

\* C2 as stated: after a right press with the cursor in the window, once that
\* frame's and the following frame's systems have run, no Selectable entity
\* has the Selected or the Border tag.
C2_RightPressDeselects ==
    (phase = "applied" /\ deselect_events.a > 0)
        => \A e \in With("Selectable") : components[e] \cap Tags = {}

\* C2 amended: the same, provided select_entities tagged no entity in either
\* of the two frames.
C2_RightPressDeselectsUnlessTagged ==
    (phase = "applied" /\ deselect_events.a > 0 /\ ~inserted.now /\ ~inserted.prev)
        => \A e \in With("Selectable") : components[e] \cap Tags = {}

\* the end of the frame after a right press: deselect read the event in this
\* frame, display_border still drew the circle's border in it, and the tags
\* are gone
C2_Witness ==
    /\ phase = "applied"
    /\ deselect_events.a > 0
    /\ ~inserted.now
    /\ ~inserted.prev
    /\ deselect_read
    /\ gizmos # {}
    /\ components["circle"] \cap Tags = {}

C10_SelectionAdditive ==
    [][(\E e \in Entities : \E t \in Tags : t \in components[e] /\ t \notin components'[e])
          => \E c \in cmd_deselect : c.op = "remove"]_vars

\* the circle, tagged by an earlier drag, keeps its tags through a frame in
\* which select_entities read the event of a drag that does not contain it
C10_Witness ==
    /\ phase = "applied"
    /\ finished_read # None
    /\ ~WithinSelection(finished_read[1], translation["circle"])
    /\ ~deselect_read
    /\ Tags \subseteq components["circle"]

\* C11: a left click whose start and end corner are equal selects nothing,
\* even an entity at the click position; a press and release within one frame
\* sets the box to (p, p), p the cursor's world position, and reports it at once.
C11_ClickSelectsNothing ==
    /\ (/\ InputHandled
        /\ cursor # None
        /\ buttons.left.just_pressed
        /\ buttons.left.just_released)
          => finished_events.b =
                <<Some(<<WorldPosition(cursor[1]), WorldPosition(cursor[1])>>)>>
    /\ (/\ finished_read # None
        /\ finished_read[1] # None
        /\ To(finished_read[1]) = From(finished_read[1]))
          => (cmd_select = {} /\ ~inserted.now)

\* a press and release within one frame, the cursor on the circle: the event
\* was read in that frame and its commands are applied
C11_Witness ==
    /\ phase = "applied"
    /\ buttons.left = ButtonState(FALSE, TRUE, TRUE)
    /\ cursor # None
    /\ WorldPosition(cursor[1]) = translation["circle"]
    /\ finished_events.b = <<Some(<<translation["circle"], translation["circle"]>>)>>
    /\ finished_read = Some(finished_events.b[1])
    /\ "Selected" \notin components["circle"]

\* C12: only entities carrying Selectable ever have the Selected or the Border
\* tag; the SelectionDisplay rectangle, the camera and the UI entity never do,
\* wherever they are.
C12_OnlySelectableTagged ==
    \A e \in Entities : components[e] \cap Tags # {} => "Selectable" \in components[e]

\* display_selection_box has put the rectangle on the midpoint of a box, the
\* event select_entities read carries that box and contains the rectangle's
\* position, the circle is tagged and the rectangle is not
C12_Witness ==
    /\ phase = "applied"
    /\ inserted.now
    /\ finished_read # None
    /\ finished_read[1] # None
    /\ display_scale = Vec2(From(finished_read[1]).x - To(finished_read[1]).x,
                            From(finished_read[1]).y - To(finished_read[1]).y)
    /\ WithinSelection(finished_read[1], translation["selection_display"])
    /\ Tags \subseteq components["circle"]
    /\ components["selection_display"] \cap Tags = {}

\* display_selection_box takes the step
DisplayStep ==
    "display_selection_box" \notin ran /\ "display_selection_box" \in ran'

\* C13: right after display_selection_box has run the SelectionDisplay entity
\* is Visible if and only if the selection box is Some; for Some((a, b)) its
\* translation is the midpoint (a + b) / 2 and its scale is b - a; for None
\* its translation and scale are unchanged.
C13_DisplayFollowsBox ==
    [][DisplayStep =>
          /\ visibility' = "Visible" <=> selection_box # None
          /\ visibility' = "Hidden" <=> selection_box = None
          /\ selection_box # None =>
                /\ 2 * translation'["selection_display"].x
                      = To(selection_box).x + From(selection_box).x
                /\ 2 * translation'["selection_display"].y
                      = To(selection_box).y + From(selection_box).y
                /\ display_scale'.x = From(selection_box).x - To(selection_box).x
                /\ display_scale'.y = From(selection_box).y - To(selection_box).y
          /\ selection_box = None =>
                /\ translation' = translation
                /\ display_scale' = display_scale]_vars

\* display_selection_box has run on a box whose corners differ: the rectangle
\* is visible, off the origin, with the box's extent as its scale
C13_Witness ==
    /\ "display_selection_box" \in ran
    /\ selection_box # None
    /\ To(selection_box) # From(selection_box)
    /\ visibility = "Visible"
    /\ translation["selection_display"] # ZERO
    /\ 2 * translation["selection_display"].x
          = To(selection_box).x + From(selection_box).x
    /\ display_scale.x = From(selection_box).x - To(selection_box).x
    /\ display_scale.y = From(selection_box).y - To(selection_box).y

\* the world position (cx - W / 2, H / 2 - cy) of a cursor position, in quarter
\* pixels
ConvertedCursor == Vec2(cursor[1].x - 2 * WinW, 2 * WinH - cursor[1].y)

\* C14: handle_mouse_input converts the cursor position (cx, cy) in a window
\* of size (W, H) to (cx - W / 2, H / 2 - cy), and stores that position in the
\* corners of the selection box: in both on a press, in the second while held.
C14_CursorConversion ==
    (/\ InputHandled
     /\ cursor # None
     /\ buttons.left.pressed
     /\ selection_box # None)
        => /\ From(selection_box) = ConvertedCursor
           /\ buttons.left.just_pressed => To(selection_box) = ConvertedCursor

\* a drag from the window's centre, stored as the world origin, to its bottom
\* right corner, stored right of and below the origin
C14_Witness ==
    /\ InputHandled
    /\ buttons.left.pressed
    /\ ~buttons.left.just_pressed
    /\ cursor = Some(Vec2(4 * WinW, 4 * WinH))
    /\ selection_box = Some(<<ZERO, Vec2(2 * WinW, -2 * WinH)>>)

====
